---- MODULE Spec2Model ----
(***************************************************************************)
(* The ACME renewal task of src/src/acme.c: the order state machine        *)
(* acme_process, its request builders and response handlers, the HTTP      *)
(* completion callback acme_httpclient_end and the hot swap                 *)
(* acme_update_certificate, for one renewal started by "acme renew".        *)
(*                                                                          *)
(* An ist (pointer + length) is NULL or a value.  The server is the         *)
(* environment: every response is drawn from Responses(state).              *)
(***************************************************************************)
EXTENDS Integers, Sequences, FiniteSets, TLC

NULL == "NULL"

\* retries a renewal starts with (ctx->retries = ACME_RETRY)
ACME_RETRY == 3

\* bounds of the model
MaxAuths == 2
MaxInsts == 2

Nonces == {"n1", "n2"}
Locations == {"l1", "l2"}

---------------------------------------------------------------------------
(* Strings that the code compares are sequences of characters.             *)

NUL == "NUL"

\* a string member that the JSON document lacks
NoStr == <<NULL>>

S_HTTP01 == <<"H", "T", "T", "P", "-", "0", "1">>
S_http01 == <<"h", "t", "t", "p", "-", "0", "1">>
S_dns01 == <<"d", "n", "s", "-", "0", "1">>
S_http == <<"h", "t", "t", "p">>
S_valid == <<"v", "a", "l", "i", "d">>
S_ready == <<"r", "e", "a", "d", "y">>
S_val == <<"v", "a", "l">>

tolower(c) ==
    CASE c = "H" -> "h"
      [] c = "T" -> "t"
      [] c = "P" -> "p"
      [] c = "D" -> "d"
      [] c = "N" -> "n"
      [] c = "S" -> "s"
      [] OTHER -> c

\* the i-th character of the C string s, its terminating NUL included
CharAt(s, i) == IF i <= Len(s) THEN tolower(s[i]) ELSE NUL

RECURSIVE strncasecmp_from(_, _, _, _)
strncasecmp_from(s1, s2, n, i) ==
    IF i > n THEN 0
    ELSE IF CharAt(s1, i) # CharAt(s2, i) THEN 1
    ELSE IF CharAt(s1, i) = NUL THEN 0
    ELSE strncasecmp_from(s1, s2, n, i + 1)

\* 0 when the first n characters of s1 and s2 are equal, case ignored
strncasecmp(s1, s2, n) == strncasecmp_from(s1, s2, n, 1)

---------------------------------------------------------------------------
(* The configuration and the responses a server may give.                  *)

\* cfg->challenge, "HTTP-01" unless the section sets it
cfg_challenge == S_HTTP01

PostStates == {"CHKACCOUNT", "NEWACCOUNT", "NEWORDER", "AUTH", "CHALLENGE", "FINALIZE"}

DirKeys == {"newNonce", "newAccount", "newOrder"}

\* the members of a JSON body: type and detail are those of a problem
\* document, etype and edetail those of its "error" object (NULL: no such
\* member, "": the empty string)
NoBody ==
    [dir |-> {}, type |-> NULL, detail |-> NULL, nauth |-> 0, finalize |-> FALSE,
     challs |-> <<>>, error |-> FALSE, etype |-> NULL, edetail |-> NULL,
     cstatus |-> NULL, certificate |-> FALSE, ostatus |-> NoStr, pem |-> FALSE]

\* a problem document, at the top of the body and inside "error"
Problem == [NoBody EXCEPT !.type = "badNonce", !.detail = "d"]
ErrorObject == [NoBody EXCEPT !.error = TRUE, !.etype = "badNonce", !.edetail = "d"]

\* what mjson_get_string returns for a member: -1 without it, else its length
mjson_get_string(member) == IF member = NULL THEN -1 ELSE Len(member)

Resp(status, nonce, location, body) ==
    [status |-> status, nonce |-> nonce, location |-> location] @@ body

\* an errmsg: the local cause, and the detail and type of the server when
\* the message quotes them
NoErr == [text |-> NULL, detail |-> NULL, type |-> NULL]

Err(text) == [text |-> text, detail |-> NULL, type |-> NULL]

\* the message of a refused status: t1 and t2 are quoted when both hold data
StatusErr(text, detail, type) ==
    IF mjson_get_string(type) > 0 /\ mjson_get_string(detail) > 0
    THEN [text |-> text, detail |-> detail, type |-> type]
    ELSE Err(text)

\* entries of challenges[]: the type (NoStr: no "type" member), the url and
\* the token (NULL: no such member)
Ch_http == [type |-> S_http01, url |-> "c1", token |-> "t1"]
Ch_dns == [type |-> S_dns01, url |-> "c2", token |-> "t2"]
Ch_notoken == [type |-> S_http01, url |-> "c1", token |-> NULL]
Ch_notype == [type |-> NoStr, url |-> "c1", token |-> "t1"]
Ch_prefix == [type |-> S_http, url |-> "c1", token |-> "t1"]
Ch_empty == [type |-> <<>>, url |-> "c1", token |-> "t1"]

\* the challenges[] arrays an authorization may carry
ChallLists ==
    { <<>>, <<Ch_http>>, <<Ch_dns>>, <<Ch_dns, Ch_http>>, <<Ch_http, Ch_dns>>,
      <<Ch_notoken>>, <<Ch_notype>>, <<Ch_dns, Ch_notype>>,
      <<Ch_prefix>>, <<Ch_dns, Ch_empty>> }

Is2xx(status) == status >= 200 /\ status < 300

\* the bodies a 2xx response may carry in each state
Bodies2xx(st) ==
    CASE st = "RESSOURCES" ->
           { [NoBody EXCEPT !.dir = d] : d \in {DirKeys} \cup { DirKeys \ {k} : k \in DirKeys } }
      [] st = "NEWORDER" ->
           { [NoBody EXCEPT !.nauth = n, !.finalize = TRUE] : n \in 0..MaxAuths }
           \cup { [NoBody EXCEPT !.nauth = n, !.finalize = FALSE] : n \in 0..1 }
      [] st = "AUTH" ->
           { [NoBody EXCEPT !.challs = l] : l \in ChallLists }
      [] st \in {"CHALLENGE", "CHKCHALLENGE"} ->
           { [b EXCEPT !.cstatus = s] :
               b \in {NoBody, ErrorObject}, s \in {"pending", "processing", "valid"} }
           \cup { [ErrorObject EXCEPT !.etype = "", !.edetail = NULL, !.cstatus = "valid"] }
      [] st = "CHKORDER" ->
           { [NoBody EXCEPT !.certificate = c, !.ostatus = s] :
               c \in BOOLEAN, s \in {NoStr, S_valid, S_ready, S_val} }
      [] st = "CERTIFICATE" ->
           { [NoBody EXCEPT !.pem = p] : p \in BOOLEAN }
      [] OTHER -> {NoBody}

\* the bodies of an error response: none, a problem document with a type,
\* one whose type is the empty string
BodiesErr(st) ==
    {NoBody, [NoBody EXCEPT !.type = ""]}
    \cup (IF st \in {"CHKACCOUNT", "NEWACCOUNT"}
          THEN { [NoBody EXCEPT !.type = t] : t \in {"accountDoesNotExist", "badNonce"} }
          ELSE {})
    \cup (IF st \in {"CHALLENGE", "CHKCHALLENGE"}
          THEN { [ErrorObject EXCEPT !.etype = "", !.edetail = NULL] }
          ELSE {})

LocationsOf(st) ==
    IF st \in {"CHKACCOUNT", "NEWACCOUNT"} THEN Locations \cup {NULL}
    ELSE IF st = "NEWORDER" THEN {"order", NULL}
    ELSE {NULL}

\* whether challenges[] offers a challenge of the configured type
Offers(challs) ==
    \E i \in 1..Len(challs) :
        /\ challs[i].type # NoStr
        /\ Len(challs[i].type) = Len(cfg_challenge)
        /\ \A j \in 1..Len(cfg_challenge) : tolower(challs[i].type[j]) = tolower(cfg_challenge[j])

\* the url of the first entry of challenges[] whose type is the configured
\* one, NULL when there is none
FirstOffer(challs) ==
    LET is == { i \in 1..Len(challs) : Offers(<<challs[i]>>) }
    IN  IF is = {} THEN NULL
        ELSE challs[CHOOSE i \in is : \A j \in is : i <= j].url

\* what is recorded of a response r handled in state st, and of the errmsg
\* that the step reports
Observe(st, r, errmsg) ==
    [state |-> st, status |-> r.status, nonce |-> r.nonce, location |-> r.location,
     type |-> r.type, detail |-> r.detail, nauth |-> r.nauth,
     offers |-> Offers(r.challs), want |-> FirstOffer(r.challs),
     cstatus |-> r.cstatus, valid |-> (r.certificate /\ r.ostatus = S_valid),
     pem |-> r.pem, errmsg |-> errmsg]

\* the response of the happy path in state st: a new account (absent, then
\* created), an order with authorizations, the configured challenge offered
\* and valid, a valid order, a PEM chain; every one with a Replay-Nonce
GoodResponse(st, r) ==
    /\ r.nonce # NULL \/ st = "RESSOURCES"
    /\ CASE st = "RESSOURCES" -> r.status = 200 /\ r.dir = DirKeys
         [] st = "CHKACCOUNT" ->
              ~Is2xx(r.status) /\ r.type = "accountDoesNotExist" /\ r.location = NULL
         [] st = "NEWACCOUNT" -> Is2xx(r.status) /\ r.location # NULL
         [] st = "NEWORDER" ->
              Is2xx(r.status) /\ r.location # NULL /\ r.nauth >= 1 /\ r.finalize
         [] st = "AUTH" -> Is2xx(r.status) /\ r.challs \in {<<Ch_http>>, <<Ch_dns, Ch_http>>}
         [] st = "CHALLENGE" -> Is2xx(r.status) /\ ~r.error
         [] st = "CHKCHALLENGE" -> Is2xx(r.status) /\ ~r.error /\ r.cstatus = "valid"
         [] st = "CHKORDER" -> Is2xx(r.status) /\ r.certificate /\ r.ostatus = S_valid
         [] st = "CERTIFICATE" -> Is2xx(r.status) /\ r.pem
         [] OTHER -> Is2xx(r.status)

NoLast ==
    [state |-> NULL, status |-> 0, nonce |-> NULL, location |-> NULL,
     type |-> NULL, detail |-> NULL, nauth |-> 0, offers |-> FALSE, want |-> NULL,
     cstatus |-> NULL, valid |-> FALSE, pem |-> FALSE, errmsg |-> NoErr]

Responses(st) ==
    { Resp(200, n, l, b) : n \in Nonces \cup {NULL}, l \in LocationsOf(st), b \in Bodies2xx(st) }
    \cup
    { Resp(400, n, l, b) : n \in Nonces \cup {NULL}, l \in LocationsOf(st), b \in BodiesErr(st) }
    \cup
    (IF st = "RESSOURCES"
     THEN { Resp(201, n, NULL, [NoBody EXCEPT !.dir = DirKeys]) : n \in Nonces \cup {NULL} }
     ELSE {})
    \cup
    { Resp(0, NULL, NULL, NoBody) }

---------------------------------------------------------------------------
(* The state.                                                              *)

VARIABLES
    ctx,         \* struct acme_ctx of the renewal (its hc and store apart)
    hc,          \* ctx->hc: NULL, or the request of the live httpclient
    done,        \* the request of hc has completed: hc->res is there
    task,        \* "none" before task_new_anywhere, then "sleeping", "woken"
                 \* (in the run queue), "destroyed", or "crashed" (a NULL
                 \* acme_auth was dereferenced)
    renew,       \* the 'acme renew' command: "idle", "dup" (the store was
                 \* duplicated and the lock released), "started", or how it
                 \* returned: "locked" (cli_err), "err" (cli_dynerr), "crashed"
    mem,         \* what the command allocated: "none", "live", "freed",
                 \* "freed_twice"
    ckch_lock,   \* CKCH_LOCK: "free", or "cli" when another operation took it
    cli_in,      \* the other operation is inside its critical section
    ckchs_tree,  \* the entry ckchs_lookup finds at the path: "old" or "new"
    old_ckchs,   \* the live store entry the renewal was started for
    new_ckchs,   \* ctx->store, the duplicate that receives key and chain
    lastReplay,  \* history: the Replay-Nonce of the latest response carrying one
    posted,      \* history: the states whose POST has been issued
    last,        \* history: what the response handled last was, until the
                 \* next request is issued
    happy,       \* history: no step has failed, every response was the good
                 \* one of its state (GoodResponse)
    nreq,        \* history: the number of HTTP requests issued
    nfail,       \* history: the number of steps that failed
    norder,      \* history: the largest number of authorizations in a 2xx
                 \* newOrder response
    cli,         \* history: args[2] of 'acme renew', the message it returned,
                 \* whether it tried the lock and looked the entry up
    rep,         \* SpecErr: a response, the handler's verdict and the errmsg
                 \* that is reported for it
    names,       \* SpecCsr: the DNS names of the entry and of its duplicate,
                 \* the CSR and the newOrder payload made of them
    conf,        \* SpecCfg: the acme_cfgs list while the configuration loads
    cache,       \* SpecCache: the HTTP cache in front of the test server
    seq,         \* SpecAuth: the ctx of an order and the requests issued for it
    race         \* SpecRace: a run of acme_process, the handles of the HTTP
                 \* client and its callback

vars == <<ctx, hc, done, task, renew, mem, ckch_lock, cli_in, ckchs_tree, old_ckchs,
          new_ckchs, lastReplay, posted, last, happy, nreq, nfail, norder, cli,
          rep, names, conf, cache, seq, race>>

\* the state of one renewal, and the state of the other specifications
renewal == <<ctx, hc, done, task, renew, mem, ckch_lock, cli_in, ckchs_tree, old_ckchs,
             new_ckchs, lastReplay, posted, last, happy, nreq, nfail, norder, cli>>

side == <<rep, names, conf, cache, seq, race>>

---------------------------------------------------------------------------
(* The requests.                                                           *)

\* the protected header of a JWS: the nonce, the url, and kid when it is set,
\* the public jwk of the account key otherwise
acme_jws_payload(nonce, url, kid) ==
    [nonce |-> nonce, url |-> url, kid |-> kid,
     jwk |-> IF kid = NULL THEN "jwk" ELSE NULL]

NoJws == [nonce |-> NULL, url |-> NULL, kid |-> NULL, jwk |-> NULL]

\* ctx->hc == NULL
NoHc == [meth |-> NULL, url |-> NULL, payload |-> NULL, jws |-> NoJws]

Post(c, url, payload) ==
    [meth |-> "POST", url |-> url, payload |-> payload,
     jws |-> acme_jws_payload(c.nonce, url, c.kid)]

Get(meth, url) == [meth |-> meth, url |-> url, payload |-> NULL, jws |-> NoJws]

\* the states whose request reads ctx->next_auth
UsesAuth(st) == st \in {"AUTH", "CHALLENGE", "CHKCHALLENGE"}

\* the request each state issues in its REQ phase
Request(c) ==
    CASE c.state = "RESSOURCES" -> Get("GET", "uri")
      [] c.state = "NEWNONCE" -> Get("HEAD", c.ressources.newNonce)
      [] c.state = "CHKACCOUNT" -> Post(c, c.ressources.newAccount, "onlyReturnExisting")
      [] c.state = "NEWACCOUNT" -> Post(c, c.ressources.newAccount, "contact")
      [] c.state = "NEWORDER" -> Post(c, c.ressources.newOrder, "identifiers")
      [] c.state = "AUTH" -> Post(c, c.auths[c.next_auth].auth, "")
      [] c.state = "CHALLENGE" -> Post(c, c.auths[c.next_auth].chall, "{}")
      [] c.state = "CHKCHALLENGE" -> Get("GET", c.auths[c.next_auth].chall)
      [] c.state = "FINALIZE" -> Post(c, c.finalize, "csr")
      [] c.state = "CHKORDER" -> Get("GET", c.order)
      [] c.state = "CERTIFICATE" -> Get("GET", c.certificate)

NoRessources == [newNonce |-> NULL, newAccount |-> NULL, newOrder |-> NULL]

\* the ctx as calloc returns it (ACME_RESSOURCES and ACME_HTTP_REQ are 0)
ZeroCtx ==
    [state |-> "RESSOURCES", http_state |-> "REQ", retries |-> 0,
     nonce |-> NULL, kid |-> NULL, order |-> NULL, finalize |-> NULL,
     certificate |-> NULL, ressources |-> NoRessources,
     auths |-> <<>>, next_auth |-> 0]

NoMem == [newstore |-> "none", ctx |-> "none", pkey_ctx |-> "none", req |-> "none"]

NoCli == [args2 |-> NULL, msg |-> NULL, trylock |-> FALSE, lookup |-> FALSE]

\* conf.acme.domains: a NULL pointer, or the names before the NULL entry
NoDomains == <<NULL>>

\* the lists of names an entry is configured with
DomainLists == {NoDomains, <<>>, <<"a", "b">>}

\* the text of a subjectAltName extension and the names it holds
RECURSIVE str_san(_, _)
str_san(san, i) ==
    IF i > Len(san) THEN <<>>
    ELSE (IF i > 1 THEN <<",">> ELSE <<>>) \o <<"DNS:", san[i]>> \o str_san(san, i + 1)

NoReq == [cn |-> NULL, san |-> <<>>]

\* the CSR of the names san, NoReq when a step of its construction fails:
\* the CN is san[0], the extension is built from str_san and there is none
\* for the empty text
acme_x509_req(san) ==
    IF Len(san) = 0 THEN NoReq
    ELSE [cn |-> san[1], san |-> str_san(san, 1)]

\* before 'acme renew': the live entry with its bindings, no duplicate, no
\* ctx, no task
Renewal0(d) ==
    /\ ctx = ZeroCtx
    /\ hc = NoHc
    /\ done = FALSE
    /\ task = "none"
    /\ renew = "idle"
    /\ mem = NoMem
    /\ ckch_lock = "free"
    /\ cli_in = FALSE
    /\ ckchs_tree = "old"
    /\ old_ckchs = [ckch_inst |-> [i \in 1..MaxInsts |-> i], domains |-> d]
    /\ new_ckchs = [key |-> NULL, cert |-> NULL, ckch_inst |-> <<>>]
    /\ nreq = 0
    /\ nfail = 0
    /\ norder = 0
    /\ lastReplay = NULL
    /\ posted = {}
    /\ last = NoLast
    /\ happy = TRUE
    /\ cli = NoCli

---------------------------------------------------------------------------
(* The response handlers: each gives its return code and the ctx it leaves. *)

\* the loop over the headers that keeps the Replay-Nonce
Harvest(c, r) == IF r.nonce # NULL THEN [c EXCEPT !.nonce = r.nonce] ELSE c

acme_directory(c, r) ==
    IF r.status # 200
    THEN [ret |-> 1, ctx |-> [c EXCEPT !.ressources = NoRessources],
          errmsg |-> Err("directory status")]
    ELSE IF r.dir # DirKeys
    THEN [ret |-> 1, ctx |-> [c EXCEPT !.ressources = NoRessources],
          errmsg |-> Err("directory URL")]
    ELSE [ret |-> 0, ctx |-> [c EXCEPT !.ressources =
                  [newNonce |-> "newNonce", newAccount |-> "newAccount",
                   newOrder |-> "newOrder"]],
          errmsg |-> NoErr]

acme_nonce(c, r) ==
    IF ~Is2xx(r.status) THEN [ret |-> 1, ctx |-> c, errmsg |-> Err("nonce status")]
    ELSE [ret |-> 0, ctx |-> Harvest(c, r), errmsg |-> NoErr]

\* on a refused status the handlers below leave in ret what the lookup of
\* the type returned, and return it
acme_res_account(c, r, newaccount) ==
    LET c1 == Harvest(IF r.location # NULL THEN [c EXCEPT !.kid = r.location] ELSE c, r)
    IN  IF ~Is2xx(r.status)
        THEN IF ~newaccount /\ r.type = "accountDoesNotExist"
             THEN [ret |-> 0, ctx |-> c1, errmsg |-> NoErr]
             ELSE [ret |-> mjson_get_string(r.type), ctx |-> c1,
                   errmsg |-> StatusErr("account status", r.detail, r.type)]
        ELSE [ret |-> 0, ctx |-> c1, errmsg |-> NoErr]

\* the acme_auth of authorizations[i]
NewAuth(i) == [auth |-> "a" \o ToString(i), chall |-> NULL, token |-> NULL]

\* a loop that allocates each acme_auth and leaves ctx->auths alone
PushAuths_unlinked(auths, i, n) == auths

\* the list after authorizations[1..n] were each linked in at the head
RECURSIVE PushAuths(_, _, _)
PushAuths(auths, i, n) ==
    IF i > n THEN auths ELSE PushAuths(<<NewAuth(i)>> \o auths, i + 1, n)

acme_res_neworder(c, r) ==
    LET c1 == Harvest(IF r.location # NULL THEN [c EXCEPT !.order = r.location] ELSE c, r)
        c2 == [c1 EXCEPT !.auths = PushAuths(c1.auths, 1, r.nauth),
                         !.next_auth = IF r.nauth > 0 THEN 1 ELSE @]
    IN  IF ~Is2xx(r.status)
        THEN [ret |-> mjson_get_string(r.type), ctx |-> c1,
              errmsg |-> StatusErr("newOrder status", r.detail, r.type)]
        ELSE IF c1.order = NULL
        THEN [ret |-> 1, ctx |-> c1, errmsg |-> Err("order Location")]
        ELSE IF ~r.finalize
        THEN [ret |-> -1, ctx |-> c2, errmsg |-> Err("finalize URL")]
        ELSE [ret |-> 0, ctx |-> [c2 EXCEPT !.finalize = "finalize"], errmsg |-> NoErr]

\* the loop over challenges[] from entry i on: the return code and the
\* acme_auth it leaves
RECURSIVE SelectChallenge(_, _, _)
SelectChallenge(challs, i, auth) ==
    IF i > Len(challs) THEN [ret |-> 0, auth |-> auth, errmsg |-> NoErr]
    ELSE IF challs[i].type = NoStr
         THEN [ret |-> 1, auth |-> auth, errmsg |-> Err("challenge type")]
    ELSE IF strncasecmp(cfg_challenge, challs[i].type, Len(challs[i].type)) # 0
         THEN SelectChallenge(challs, i + 1, auth)
    ELSE IF challs[i].url = NULL
         THEN [ret |-> 1, auth |-> auth, errmsg |-> Err("challenge URL")]
    ELSE IF challs[i].token = NULL
         THEN [ret |-> 1, auth |-> [auth EXCEPT !.chall = challs[i].url],
               errmsg |-> Err("token")]
    ELSE [ret |-> 0, auth |-> [auth EXCEPT !.chall = challs[i].url,
                                            !.token = challs[i].token],
          errmsg |-> NoErr]

acme_res_auth(c, r) ==
    LET c1 == Harvest(c, r)
        sel == SelectChallenge(r.challs, 1, c1.auths[c1.next_auth])
    IN  IF ~Is2xx(r.status)
        THEN [ret |-> mjson_get_string(r.type), ctx |-> c1,
              errmsg |-> StatusErr("Authorization status", r.detail, r.type)]
        ELSE [ret |-> sel.ret, ctx |-> [c1 EXCEPT !.auths[c1.next_auth] = sel.auth],
              errmsg |-> sel.errmsg]

\* only the members of the "error" object are looked up
acme_res_challenge(c, r) ==
    IF ~Is2xx(r.status) \/ r.error
    THEN [ret |-> mjson_get_string(r.etype), ctx |-> Harvest(c, r),
          errmsg |-> StatusErr("Challenge error", r.edetail, r.etype)]
    ELSE [ret |-> 0, ctx |-> Harvest(c, r), errmsg |-> NoErr]

acme_res_finalize(c, r) ==
    IF ~Is2xx(r.status)
    THEN [ret |-> mjson_get_string(r.type), ctx |-> Harvest(c, r),
          errmsg |-> StatusErr("Finalize status", r.detail, r.type)]
    ELSE [ret |-> 0, ctx |-> Harvest(c, r), errmsg |-> NoErr]

\* ret holds the length of the status when the comparison refuses it
acme_res_chkorder(c, r) ==
    LET c1 == Harvest(c, r)
        c2 == [c1 EXCEPT !.certificate = "certificate"]
    IN  IF ~Is2xx(r.status)
        THEN [ret |-> mjson_get_string(r.type), ctx |-> c1,
              errmsg |-> StatusErr("Order status", r.detail, r.type)]
        ELSE IF ~r.certificate
        THEN [ret |-> -1, ctx |-> c1, errmsg |-> Err("certificate URL")]
        ELSE IF r.ostatus = NoStr
        THEN [ret |-> -1, ctx |-> c2, errmsg |-> Err("Order status member")]
        ELSE IF strncasecmp(S_valid, r.ostatus, Len(r.ostatus)) # 0
        THEN [ret |-> Len(r.ostatus), ctx |-> c2, errmsg |-> Err("order status")]
        ELSE [ret |-> 0, ctx |-> c2, errmsg |-> NoErr]

---------------------------------------------------------------------------
(* The hot swap.                                                           *)

\* k is the number of bindings ckch_inst_rebuild rebuilds before it fails
\* (all of them when k is their number)
acme_update_certificate(new, lock, tree, old, k) ==
    IF lock # "free"
    THEN [ret |-> 1, new_ckchs |-> new, ckch_lock |-> "free", ckchs_tree |-> tree,
          errmsg |-> Err("certificate lock")]
    ELSE IF tree = "none"
    THEN [ret |-> 1, new_ckchs |-> new, ckch_lock |-> "free", ckchs_tree |-> tree,
          errmsg |-> Err("previous certificate")]
    ELSE IF k < Len(old.ckch_inst)
    THEN [ret |-> 1,
          new_ckchs |-> [new EXCEPT !.ckch_inst = @ \o SubSeq(old.ckch_inst, 1, k)],
          ckch_lock |-> "free", ckchs_tree |-> tree, errmsg |-> Err("rebuild")]
    ELSE [ret |-> 0,
          new_ckchs |-> [new EXCEPT !.ckch_inst = @ \o old.ckch_inst],
          ckch_lock |-> "free", ckchs_tree |-> "new", errmsg |-> NoErr]

acme_res_certificate(c, r, new, lock, tree, old, k) ==
    LET c1 == Harvest(c, r)
        same == [new_ckchs |-> new, ckch_lock |-> lock, ckchs_tree |-> tree]
        loaded == [new EXCEPT !.cert = "pem"]
        upd == acme_update_certificate(loaded, lock, tree, old, k)
    IN  IF ~Is2xx(r.status)
        THEN [ret |-> mjson_get_string(r.type), ctx |-> c1,
              errmsg |-> StatusErr("certificate status", r.detail, r.type)] @@ same
        ELSE IF ~r.pem
             THEN [ret |-> 1, ctx |-> c1, errmsg |-> Err("PEM")]
                  @@ [same EXCEPT !.new_ckchs.key = NULL]
        ELSE [ctx |-> c1] @@ upd

---------------------------------------------------------------------------
(* acme_process.                                                           *)

\* a retry label that does not rewind http_st
Retry_keeps_phase(c) ==
    [ctx |-> [c EXCEPT !.retries = @ - 1],
     task |-> IF c.retries - 1 > 0 THEN "woken" ELSE "destroyed"]

\* the retry label: one unit of the budget, and the end of the task at zero
Retry(c) ==
    [ctx |-> [c EXCEPT !.http_state = "REQ", !.retries = @ - 1],
     task |-> IF c.retries - 1 > 0 THEN "woken" ELSE "destroyed"]

\* the state is stored and the task returns woken
Wake(c, st) == [ctx |-> [c EXCEPT !.state = st, !.http_state = "REQ"], task |-> "woken"]

\* the end label: the task is destroyed, ctx->state is not written
End(c) == [ctx |-> c, task |-> "destroyed"]

auth_next(c) == IF c.next_auth < Len(c.auths) THEN c.next_auth + 1 ELSE 0

auth_head(c) == IF Len(c.auths) > 0 THEN 1 ELSE 0

\* a CHKACCOUNT case that does not look at ctx->kid
after_chkaccount_unconditional(c) == Wake(c, "NEWACCOUNT")

after_chkaccount(c) == Wake(c, IF c.kid = NULL THEN "NEWACCOUNT" ELSE "NEWORDER")

after_newaccount(c) == End(c)

after_auth(c) ==
    IF auth_next(c) = 0
    THEN Wake([c EXCEPT !.next_auth = auth_head(c)], "CHALLENGE")
    ELSE Wake([c EXCEPT !.next_auth = auth_next(c)], "AUTH")

after_challenge(c) ==
    IF auth_next(c) = 0
    THEN Wake([c EXCEPT !.next_auth = auth_head(c)], "CHKCHALLENGE")
    ELSE Wake([c EXCEPT !.next_auth = auth_next(c)], "CHALLENGE")

\* a CHKCHALLENGE case that goes to FINALIZE after the first poll
after_chkchallenge_once(c) == Wake([c EXCEPT !.next_auth = 0], "FINALIZE")

after_chkchallenge(c) ==
    IF auth_next(c) = 0
    THEN Wake([c EXCEPT !.next_auth = 0], "FINALIZE")
    ELSE Wake([c EXCEPT !.next_auth = auth_next(c)], "CHKCHALLENGE")

\* what each case of the switch does once its handler has returned 0
Advance(c) ==
    CASE c.state = "RESSOURCES" -> Wake(c, "NEWNONCE")
      [] c.state = "NEWNONCE" -> Wake(c, "CHKACCOUNT")
      [] c.state = "CHKACCOUNT" -> after_chkaccount(c)
      [] c.state = "NEWACCOUNT" -> after_newaccount(c)
      [] c.state = "NEWORDER" -> Wake(c, "AUTH")
      [] c.state = "AUTH" -> after_auth(c)
      [] c.state = "CHALLENGE" -> after_challenge(c)
      [] c.state = "CHKCHALLENGE" -> after_chkchallenge(c)
      [] c.state = "FINALIZE" -> Wake(c, "CHKORDER")
      [] c.state = "CHKORDER" -> Wake(c, "CERTIFICATE")
      [] c.state = "CERTIFICATE" -> End(c)

\* the handler each case of the switch calls in its RES phase
Handle(c, r) ==
    CASE c.state = "RESSOURCES" -> acme_directory(c, r)
      [] c.state = "NEWNONCE" -> acme_nonce(c, r)
      [] c.state = "CHKACCOUNT" -> acme_res_account(c, r, FALSE)
      [] c.state = "NEWACCOUNT" -> acme_res_account(c, r, TRUE)
      [] c.state = "NEWORDER" -> acme_res_neworder(c, r)
      [] c.state = "AUTH" -> acme_res_auth(c, r)
      [] c.state = "CHALLENGE" -> acme_res_challenge(c, r)
      [] c.state = "CHKCHALLENGE" -> acme_res_challenge(c, r)
      [] c.state = "FINALIZE" -> acme_res_finalize(c, r)
      [] c.state = "CHKORDER" -> acme_res_chkorder(c, r)

\* the REQ phase: the request is issued and the task parks, or issuing it
\* fails at once (acme_http_req returns 1); a NULL ctx->next_auth is
\* dereferenced when the state reads it
ProcessReq ==
    /\ IF UsesAuth(ctx.state) /\ ctx.next_auth = 0
       THEN /\ task' = "crashed"
            /\ UNCHANGED <<ctx, hc, posted, last, happy, nreq, nfail>>
       ELSE \E ok \in BOOLEAN :
              IF ok
              THEN /\ hc' = Request(ctx)
                   /\ task' = "sleeping"
                   /\ posted' = IF ctx.state \in PostStates
                                THEN posted \cup {ctx.state} ELSE posted
                   /\ last' = NoLast
                   /\ nreq' = nreq + 1
                   /\ UNCHANGED <<ctx, happy, nfail>>
              ELSE /\ hc' = NoHc
                   /\ ctx' = Retry(ctx).ctx
                   /\ task' = Retry(ctx).task
                   /\ happy' = FALSE
                   /\ nfail' = nfail + 1
                   /\ UNCHANGED <<posted, last, nreq>>
    /\ UNCHANGED <<done, renew, mem, ckch_lock, cli_in, ckchs_tree, old_ckchs,
                   new_ckchs, lastReplay, norder>>

\* the RES phase: the handler reads the response r, then the next state or
\* the retry label
ProcessRes ==
    /\ \E r \in Responses(ctx.state) :
         /\ lastReplay' = IF r.nonce # NULL THEN r.nonce ELSE lastReplay
         /\ norder' = IF ctx.state = "NEWORDER" /\ Is2xx(r.status) /\ r.nauth > norder
                       THEN r.nauth ELSE norder
         /\ IF ctx.state = "CERTIFICATE"
            THEN \E k \in 0..Len(old_ckchs.ckch_inst) :
                   LET o == acme_res_certificate(ctx, r, new_ckchs, ckch_lock,
                                                 ckchs_tree, old_ckchs, k)
                       fin == IF o.ret # 0 THEN Retry(o.ctx) ELSE Advance(o.ctx)
                   IN  /\ ctx' = fin.ctx
                       /\ task' = fin.task
                       /\ last' = Observe(ctx.state, r, IF o.ret # 0 THEN o.errmsg ELSE NoErr)
                       /\ new_ckchs' = o.new_ckchs
                       /\ ckch_lock' = o.ckch_lock
                       /\ ckchs_tree' = o.ckchs_tree
                       /\ nfail' = IF o.ret # 0 THEN nfail + 1 ELSE nfail
                       /\ happy' = (happy /\ GoodResponse(ctx.state, r)
                                     /\ ckch_lock = "free"
                                     /\ k = Len(old_ckchs.ckch_inst))
            ELSE LET o == Handle(ctx, r)
                     fin == IF o.ret # 0 THEN Retry(o.ctx) ELSE Advance(o.ctx)
                 IN  /\ ctx' = fin.ctx
                     /\ task' = fin.task
                     /\ last' = Observe(ctx.state, r, IF o.ret # 0 THEN o.errmsg ELSE NoErr)
                     /\ happy' = (happy /\ GoodResponse(ctx.state, r))
                     /\ nfail' = IF o.ret # 0 THEN nfail + 1 ELSE nfail
                     /\ UNCHANGED <<new_ckchs, ckch_lock, ckchs_tree>>
    /\ hc' = NoHc
    /\ done' = FALSE
    /\ UNCHANGED <<renew, mem, cli_in, old_ckchs, posted, nreq>>

acme_process ==
    /\ task = "woken"
    /\ UNCHANGED <<cli, side>>
    /\ IF ctx.state = "END"
       THEN task' = "destroyed" /\ UNCHANGED <<ctx, hc, done, renew, mem, ckch_lock,
                                               cli_in, ckchs_tree, old_ckchs,
                                               new_ckchs, lastReplay, posted, last,
                                               happy, nreq, nfail, norder>>
       ELSE IF ctx.http_state = "REQ" THEN ProcessReq ELSE ProcessRes

\* the completion callback of the HTTP client: the response is there
acme_httpclient_end ==
    /\ hc # NoHc
    /\ UNCHANGED side
    /\ ~done
    /\ task \in {"sleeping", "woken"}
    /\ done' = TRUE
    /\ ctx' = [ctx EXCEPT !.http_state = IF @ = "REQ" THEN "RES" ELSE @]
    /\ task' = "woken"
    /\ UNCHANGED <<hc, renew, mem, ckch_lock, cli_in, ckchs_tree, old_ckchs,
                   new_ckchs, lastReplay, posted, last, happy, nreq, nfail, norder, cli>>

\* the err label of cli_acme_renew_parse: what its frees do to the
\* allocations (a pointer already freed is freed again)
renew_err(m) ==
    [m EXCEPT !.newstore = IF @ = "live" THEN "freed" ELSE @,
              !.pkey_ctx = CASE @ = "live" -> "freed"
                             [] @ = "freed" -> "freed_twice"
                             [] OTHER -> @,
              !.ctx = IF @ = "live" THEN "freed" ELSE @]

\* args[1] of the command: the keyword it is registered under
args1 == "renew"

\* the ways 'acme renew' fails under CKCH_LOCK for the name a, and the
\* messages of its failures
ParseFails(a) ==
    IF a = "" THEN {"lookup"} ELSE {"none", "lookup", "acme_id", "cfg", "dup"}

RenewMsg(fail) ==
    CASE fail = "args" -> "not enough parameters"
      [] fail = "lookup" -> "Can't find the certificate"
      [] fail = "acme_id" -> "No ACME configuration defined"
      [] fail = "cfg" -> "No ACME configuration found"
      [] fail \in {"dup", "calloc"} -> "Out of memory"
      [] fail = "keygen" -> "Can't generate a private key"
      [] fail = "csr" -> "Can't generate a CSR"
      [] OTHER -> ""

\* an 'acme renew' whose failed try-lock goes to the err label like the
\* other failures
cli_acme_renew_parse_goto_err ==
    /\ renew = "idle"
    /\ UNCHANGED side
    /\ \E a \in {"", "crt"} :
         IF args1 = ""
         THEN /\ renew' = "err"
              /\ ckch_lock' = "free"
              /\ mem' = renew_err(mem)
              /\ cli' = [args2 |-> a, msg |-> RenewMsg("args"), trylock |-> FALSE,
                         lookup |-> FALSE]
              /\ UNCHANGED new_ckchs
         ELSE IF ckch_lock # "free"
         THEN /\ renew' = "err"
              /\ ckch_lock' = "free"
              /\ mem' = renew_err(mem)
              /\ cli' = [args2 |-> a, msg |-> "locked", trylock |-> TRUE,
                         lookup |-> FALSE]
              /\ UNCHANGED new_ckchs
         ELSE \E fail \in ParseFails(a) :
                /\ ckch_lock' = "free"
                /\ IF fail = "none"
                   THEN /\ renew' = "dup"
                        /\ mem' = [mem EXCEPT !.newstore = "live"]
                        /\ new_ckchs' = [key |-> "oldkey", cert |-> "dup", ckch_inst |-> <<>>]
                        /\ cli' = [args2 |-> a, msg |-> NULL, trylock |-> TRUE,
                                   lookup |-> TRUE]
                   ELSE /\ renew' = "err"
                        /\ mem' = renew_err(mem)
                        /\ cli' = [args2 |-> a, msg |-> RenewMsg(fail), trylock |-> TRUE,
                                   lookup |-> TRUE]
                        /\ UNCHANGED new_ckchs
    /\ UNCHANGED <<ctx, hc, done, task, cli_in, ckchs_tree, old_ckchs, lastReplay,
                   posted, last, happy, nreq, nfail, norder>>

\* 'acme renew <cert>', up to the release of CKCH_LOCK: the test of the
\* arguments, the try-lock, the lookup of the entry args[2] names, of its
\* acme section and of the acme_cfg, ckchs_dup
cli_acme_renew_parse ==
    /\ renew = "idle"
    /\ UNCHANGED side
    /\ \E a \in {"", "crt"} :
         IF args1 = ""
         THEN /\ renew' = "err"
              /\ ckch_lock' = "free"
              /\ mem' = renew_err(mem)
              /\ cli' = [args2 |-> a, msg |-> RenewMsg("args"), trylock |-> FALSE,
                         lookup |-> FALSE]
              /\ UNCHANGED new_ckchs
         ELSE IF ckch_lock # "free"
         THEN /\ renew' = "locked"
              /\ cli' = [args2 |-> a, msg |-> "locked", trylock |-> TRUE,
                         lookup |-> FALSE]
              /\ UNCHANGED <<ckch_lock, mem, new_ckchs>>
         ELSE \E fail \in ParseFails(a) :
                /\ ckch_lock' = "free"
                /\ IF fail = "none"
                   THEN /\ renew' = "dup"
                        /\ mem' = [mem EXCEPT !.newstore = "live"]
                        /\ new_ckchs' = [key |-> "oldkey", cert |-> "dup", ckch_inst |-> <<>>]
                        /\ cli' = [args2 |-> a, msg |-> NULL, trylock |-> TRUE,
                                   lookup |-> TRUE]
                   ELSE /\ renew' = "err"
                        /\ mem' = renew_err(mem)
                        /\ cli' = [args2 |-> a, msg |-> RenewMsg(fail), trylock |-> TRUE,
                                   lookup |-> TRUE]
                        /\ UNCHANGED new_ckchs
    /\ UNCHANGED <<ctx, hc, done, task, cli_in, ckchs_tree, old_ckchs, lastReplay,
                   posted, last, happy, nreq, nfail, norder>>

\* the ways the rest of 'acme renew' fails for the names san of the entry:
\* a NULL san is dereferenced, no CSR comes of an empty one
StartFails(san) ==
    {"calloc", "keygen"}
    \cup (IF san = NoDomains THEN {"deref"}
          ELSE IF acme_x509_req(san) = NoReq THEN {"csr"}
          ELSE {"none", "csr", "task"})

\* the rest of 'acme renew', CKCH_LOCK released: calloc of the ctx, the
\* new key, the CSR of store->conf.acme.domains, the task. Every failure
\* goes to the err label, which unlocks CKCH_LOCK again and frees; freeing
\* pkey_ctx a second time is undefined: the command returns its error or
\* the process dies
cli_acme_renew_start ==
    /\ renew = "dup"
    /\ UNCHANGED side
    /\ \E fail \in StartFails(old_ckchs.domains) :
         LET m == CASE fail = "calloc" -> mem
                    [] fail = "keygen" -> [mem EXCEPT !.ctx = "live", !.pkey_ctx = "live"]
                    [] fail \in {"csr", "deref"} ->
                         [mem EXCEPT !.ctx = "live", !.pkey_ctx = "freed"]
                    [] OTHER -> [mem EXCEPT !.ctx = "live", !.pkey_ctx = "freed",
                                            !.req = "live"]
         IN  IF fail = "none"
             THEN /\ renew' = "started"
                  /\ mem' = m
                  /\ ctx' = [ZeroCtx EXCEPT !.retries = ACME_RETRY]
                  /\ new_ckchs' = [new_ckchs EXCEPT !.key = "pkey"]
                  /\ task' = "woken"
                  /\ UNCHANGED <<ckch_lock, cli>>
             ELSE IF fail = "deref"
             THEN /\ renew' = "crashed"
                  /\ mem' = m
                  /\ new_ckchs' = [new_ckchs EXCEPT !.key = "pkey"]
                  /\ UNCHANGED <<ctx, task, ckch_lock, cli>>
             ELSE /\ mem' = renew_err(m)
                  /\ renew' \in IF mem'.pkey_ctx = "freed_twice"
                                THEN {"err", "crashed"} ELSE {"err"}
                  /\ cli' = [cli EXCEPT !.msg = IF renew' = "err" THEN RenewMsg(fail)
                                                ELSE NULL]
                  /\ ckch_lock' = "free"
                  /\ new_ckchs' = IF fail \in {"csr", "task"}
                                  THEN [new_ckchs EXCEPT !.key = "pkey"] ELSE new_ckchs
                  /\ UNCHANGED <<ctx, task>>
    /\ UNCHANGED <<hc, done, cli_in, ckchs_tree, old_ckchs, lastReplay, posted, last,
                   happy, nreq, nfail, norder>>

\* another operation on certificates (another 'acme renew') takes CKCH_LOCK
\* and enters its critical section, while the command runs or while the
\* renewal is about to install (the only times the renewal uses the lock)
cli_lock ==
    /\ renew \in {"idle", "dup"} \/ ctx.state = "CERTIFICATE"
    /\ UNCHANGED side
    /\ ckch_lock = "free"
    /\ ~cli_in
    /\ ckch_lock' = "cli"
    /\ cli_in' = TRUE
    /\ UNCHANGED <<ctx, hc, done, task, renew, mem, ckchs_tree, old_ckchs, new_ckchs,
                   lastReplay, posted, last, happy, nreq, nfail, norder, cli>>

\* and leaves it, releasing the lock
cli_unlock ==
    /\ cli_in
    /\ UNCHANGED side
    /\ ckch_lock' = "free"
    /\ cli_in' = FALSE
    /\ UNCHANGED <<ctx, hc, done, task, renew, mem, ckchs_tree, old_ckchs, new_ckchs,
                   lastReplay, posted, last, happy, nreq, nfail, norder, cli>>

---------------------------------------------------------------------------
(* The errmsg of a failed step (SpecErr): every handler applied to every   *)
(* response of a refused step, and what the retry label then reports.      *)

\* a ctx in the RES phase of state st, with one authorization
CtxAt(st) ==
    [ZeroCtx EXCEPT !.state = st, !.http_state = "RES", !.retries = ACME_RETRY,
                    !.nonce = "n1", !.auths = <<NewAuth(1)>>, !.next_auth = 1]

ResStates ==
    {"RESSOURCES", "NEWNONCE", "CHKACCOUNT", "NEWACCOUNT", "NEWORDER", "AUTH",
     "CHALLENGE", "CHKCHALLENGE", "FINALIZE", "CHKORDER", "CERTIFICATE"}

\* the answers of a server that refuses: with and without a problem
\* document, whole or in part, at the top of the body or in "error"
Refusals ==
    { Resp(s, n, NULL, b) :
        s \in {200, 400, 503}, n \in {NULL, "n1"},
        b \in {NoBody, Problem, [Problem EXCEPT !.detail = NULL],
               [Problem EXCEPT !.type = NULL], ErrorObject} }

NoRep ==
    [pc |-> "off", st |-> NULL, r |-> Resp(0, NULL, NULL, NoBody), failed |-> FALSE,
     errmsg |-> NoErr]

\* the RES phase of acme_process and its retry label: the handler of the
\* state reads the response, and the errmsg it left is what ha_notice prints
acme_process_notice ==
    /\ rep.pc = "res"
    /\ LET o == IF rep.st = "CERTIFICATE"
                THEN acme_res_certificate(CtxAt(rep.st), rep.r,
                         [key |-> "pkey", cert |-> "dup", ckch_inst |-> <<>>], "free",
                         "old", [ckch_inst |-> <<1>>, domains |-> <<"a">>], 1)
                ELSE Handle(CtxAt(rep.st), rep.r)
       IN  rep' = [rep EXCEPT !.pc = "reported", !.failed = (o.ret # 0),
                              !.errmsg = IF o.ret # 0 THEN o.errmsg ELSE NoErr]
    /\ UNCHANGED <<renewal, names, conf, cache, seq, race>>

---------------------------------------------------------------------------
(* The names of a renewal (SpecCsr): the CSR is built from the names of    *)
(* the live entry after CKCH_LOCK was released, the newOrder payload from  *)
(* those of the duplicate.                                                 *)

DnsNames == {"a", "b", "c"}

MaxNames == 2

\* the name lists of at most MaxNames names, and the absent list
NameLists ==
    UNION { [1..n -> DnsNames] : n \in 0..MaxNames } \cup {NoDomains}

\* the names in the text of a subjectAltName extension
san_names(str) == { str[i + 1] : i \in { j \in 1..Len(str) : str[j] = "DNS:" } }

\* the "identifiers" array of acme_req_neworder: an object per name, a comma
\* before each but the one that is the first of the list
RECURSIVE identifiers(_, _)
identifiers(san, i) ==
    IF i > Len(san) THEN <<>>
    ELSE (IF i = 1 THEN <<>> ELSE <<",">>) \o <<"{dns value:", san[i], "}">>
         \o identifiers(san, i + 1)

\* the payload of the newOrder request, NoStr when san is NULL
acme_req_neworder(san) ==
    IF san = NoDomains THEN NoStr
    ELSE <<"{identifiers:[">> \o identifiers(san, 1) \o <<"]}">>

\* the values of the objects of a payload, in their order
RECURSIVE identifier_values(_, _)
identifier_values(json, i) ==
    IF i > Len(json) THEN <<>>
    ELSE (IF json[i] = "{dns value:" THEN <<json[i + 1]>> ELSE <<>>)
         \o identifier_values(json, i + 1)

\* the duplicate of an entry carries the names of the entry
ckchs_dup(domains) == domains

NoNames ==
    [pc |-> "off", store |-> NoDomains, freed |-> FALSE, dup |-> NoDomains,
     req |-> NoReq, payload |-> NoStr]

\* 'acme renew' under CKCH_LOCK: the entry is found and duplicated
renew_dup ==
    /\ names.pc = "idle"
    /\ names' = [names EXCEPT !.pc = "unlocked", !.dup = ckchs_dup(names.store)]
    /\ UNCHANGED <<renewal, rep, conf, cache, seq, race>>

\* the installation of another renewal of the same entry, or a commit from
\* the CLI, once CKCH_LOCK is free again: the entry is replaced and the
\* previous one is removed
ckch_store_replace ==
    /\ names.pc = "unlocked"
    /\ ~names.freed
    /\ names' = [names EXCEPT !.freed = TRUE]
    /\ UNCHANGED <<renewal, rep, conf, cache, seq, race>>

\* 'acme renew' after the unlock: the CSR of store->conf.acme.domains; the
\* names of an entry that was removed meanwhile are whatever its memory
\* holds now
renew_csr ==
    /\ names.pc = "unlocked"
    /\ \E san \in IF names.freed THEN NameLists ELSE {names.store} :
         IF san = NoDomains
         THEN names' = [names EXCEPT !.pc = "crashed"]
         ELSE IF acme_x509_req(san) = NoReq
         THEN names' = [names EXCEPT !.pc = "err"]
         ELSE names' = [names EXCEPT !.pc = "started", !.req = acme_x509_req(san)]
    /\ UNCHANGED <<renewal, rep, conf, cache, seq, race>>

\* the REQ phase of NEWORDER: the payload of ctx->store->conf.acme.domains
renew_neworder ==
    /\ names.pc = "started"
    /\ names' = [names EXCEPT
                   !.pc = IF acme_req_neworder(names.dup) = NoStr THEN "retry"
                          ELSE "ordered",
                   !.payload = acme_req_neworder(names.dup)]
    /\ UNCHANGED <<renewal, rep, conf, cache, seq, race>>

---------------------------------------------------------------------------
(* The loading of the configuration (SpecCfg): crt lines that name an acme *)
(* section, the acme sections, and the check at the end of the file.       *)

ConfNames == {"A", "B"}

MaxLines == 4

\* the acme_cfg new_acme_cfg allocates: linenum 0, no account key yet
NewCfg(name) == [name |-> name, linenum |-> 0, pkey |-> FALSE, thumbprint |-> FALSE]

\* get_acme_cfg: the index in acme_cfgs of the acme_cfg called name, 0 for NULL
get_acme_cfg(cfgs, name) ==
    IF \E i \in 1..Len(cfgs) : cfgs[i].name = name
    THEN CHOOSE i \in 1..Len(cfgs) : cfgs[i].name = name
    ELSE 0

\* new_acme_cfg: the list with an acme_cfg called name, linked in at the head
\* when there was none
new_acme_cfg(cfgs, name) ==
    IF get_acme_cfg(cfgs, name) # 0 THEN cfgs ELSE <<NewCfg(name)>> \o cfgs

NoConf ==
    [pc |-> "off", acme_cfgs |-> <<>>, cur_acme |-> NULL, linenum |-> 0,
     keys |-> [n \in ConfNames |-> "absent"]]

\* a crt line of linenum that names the acme section value
ckch_conf_acme_init ==
    /\ conf.pc = "top"
    /\ conf.linenum < MaxLines
    /\ \E value \in ConfNames :
         LET cfgs == new_acme_cfg(conf.acme_cfgs, value)
             i == get_acme_cfg(cfgs, value)
             linenum == conf.linenum + 1
         IN  conf' = [conf EXCEPT
                        !.linenum = linenum,
                        !.acme_cfgs = IF cfgs[i].linenum = 0
                                      THEN [cfgs EXCEPT ![i].linenum = -linenum]
                                      ELSE cfgs]
    /\ UNCHANGED <<renewal, rep, names, cache, seq, race>>

\* the line "acme <ID>" that opens a section
cfg_parse_acme ==
    /\ conf.pc = "top"
    /\ conf.linenum < MaxLines
    /\ \E id \in ConfNames :
         LET cfgs == new_acme_cfg(conf.acme_cfgs, id)
             i == get_acme_cfg(cfgs, id)
             linenum == conf.linenum + 1
         IN  IF cfgs[i].linenum > 0
             THEN conf' = [conf EXCEPT !.pc = "failed", !.linenum = linenum,
                                       !.acme_cfgs = cfgs, !.cur_acme = id]
             ELSE conf' = [conf EXCEPT !.pc = "acme", !.linenum = linenum,
                                       !.acme_cfgs = [cfgs EXCEPT ![i].linenum = linenum],
                                       !.cur_acme = id]
    /\ UNCHANGED <<renewal, rep, names, cache, seq, race>>

\* the end of an acme section: its own cur_acme is the head of acme_cfgs,
\* whose account key is read from "<name>.account.key"
cfg_postsection_acme ==
    /\ conf.pc = "acme"
    /\ LET cur == conf.acme_cfgs[1]
       IN  IF conf.keys[cur.name] # "key"
           THEN conf' = [conf EXCEPT !.pc = "failed"]
           ELSE conf' = [conf EXCEPT !.pc = "top",
                                     !.acme_cfgs[1].pkey = TRUE,
                                     !.acme_cfgs[1].thumbprint = TRUE]
    /\ UNCHANGED <<renewal, rep, names, cache, seq, race>>

\* the end of the file: an acme_cfg whose linenum is not positive was named
\* by a crt line and never declared
cfg_postparser_acme ==
    /\ conf.pc = "top"
    /\ LET ret == Cardinality({ i \in 1..Len(conf.acme_cfgs) :
                                  conf.acme_cfgs[i].linenum <= 0 })
       IN  conf' = [conf EXCEPT !.pc = IF ret = 0 THEN "ok" ELSE "failed"]
    /\ UNCHANGED <<renewal, rep, names, cache, seq, race>>

---------------------------------------------------------------------------
(* The HTTP cache of reg-tests/cache/caching_rules.vtc (SpecCache): the    *)
(* servers s1 and s2 and the client c1 are those of the test, the requests *)
(* of c1 for different URLs come in any order; no response outlives its    *)
(* freshness during the test. The cache itself is modelled from its rule.  *)

MaxRequests == 4

\* a header that the response lacks, and an Age that is not an integer
Absent == -1
Invalid == -2

NoHeaders ==
    [maxage |-> Absent, smaxage |-> Absent, expires |-> FALSE, lastmod |-> FALSE,
     etag |-> FALSE, age |-> Absent]

\* what a server sends: its headers and the length of its body
Tx(hdrs, bodylen) == [hdrs |-> hdrs, bodylen |-> bodylen]

\* the responses that s1 and s2 send for each URL, in their order; the
\* backend of /expires adds the Expires header before cache-store
ServerScript ==
    [u \in {"/max-age", "/s-maxage", "/expires", "/last-modified", "/etag",
            "/uncacheable", "/invalid_age", "/old_age", "/good_age", "/nocache",
            "/maxage_zero", "/overridden", "/overridden_null_maxage"} |->
       CASE u = "/max-age" -> <<Tx([NoHeaders EXCEPT !.maxage = 5], 150)>>
         [] u = "/s-maxage" -> <<Tx([NoHeaders EXCEPT !.smaxage = 5], 160)>>
         [] u = "/expires" -> <<Tx([NoHeaders EXCEPT !.expires = TRUE], 170)>>
         [] u = "/last-modified" -> <<Tx([NoHeaders EXCEPT !.lastmod = TRUE], 180)>>
         [] u = "/etag" -> <<Tx([NoHeaders EXCEPT !.etag = TRUE], 190)>>
         [] u = "/uncacheable" -> <<Tx(NoHeaders, 200), Tx(NoHeaders, 210)>>
         [] u = "/invalid_age" ->
              <<Tx([NoHeaders EXCEPT !.maxage = 5, !.age = Invalid], 120),
                Tx([NoHeaders EXCEPT !.maxage = 5, !.age = Invalid], 120)>>
         [] u = "/old_age" ->
              <<Tx([NoHeaders EXCEPT !.maxage = 5, !.age = 10], 130),
                Tx([NoHeaders EXCEPT !.maxage = 5, !.age = 10], 130)>>
         [] u = "/good_age" -> <<Tx([NoHeaders EXCEPT !.maxage = 500, !.age = 100], 140)>>
         [] u = "/nocache" ->
              <<Tx([NoHeaders EXCEPT !.maxage = 500, !.age = 100], 140),
                Tx([NoHeaders EXCEPT !.maxage = 500, !.age = 100], 140)>>
         [] u = "/maxage_zero" ->
              <<Tx([NoHeaders EXCEPT !.maxage = 0], 150),
                Tx([NoHeaders EXCEPT !.maxage = 0], 150)>>
         [] u = "/overridden" ->
              <<Tx([NoHeaders EXCEPT !.maxage = 1, !.smaxage = 5], 160)>>
         [] u = "/overridden_null_maxage" ->
              <<Tx([NoHeaders EXCEPT !.maxage = 0, !.smaxage = 5], 190)>> ]

Urls == DOMAIN ServerScript

\* a request of c1 and what c1 expects of its response: the length of the
\* body and X-Cache-Hit (Absent: not looked at)
Rq(nocache, bodylen, hit) == [nocache |-> nocache, bodylen |-> bodylen, hit |-> hit]

ClientScript ==
    [u \in Urls |->
       CASE u = "/max-age" -> <<Rq(FALSE, 150, Absent), Rq(FALSE, 150, 1)>>
         [] u = "/s-maxage" -> <<Rq(FALSE, 160, Absent), Rq(FALSE, 160, 1)>>
         [] u = "/expires" -> <<Rq(FALSE, 170, Absent), Rq(FALSE, 170, 1)>>
         [] u = "/last-modified" -> <<Rq(FALSE, 180, Absent), Rq(FALSE, 180, 1)>>
         [] u = "/etag" -> <<Rq(FALSE, 190, Absent), Rq(FALSE, 190, 1)>>
         [] u = "/uncacheable" -> <<Rq(FALSE, 200, Absent), Rq(FALSE, 210, 0)>>
         [] u = "/invalid_age" -> <<Rq(FALSE, 120, 0), Rq(FALSE, 120, 0)>>
         [] u = "/old_age" -> <<Rq(FALSE, 130, 0), Rq(FALSE, 130, 0)>>
         [] u = "/good_age" -> <<Rq(FALSE, 140, 0), Rq(FALSE, 140, 1)>>
         [] u = "/nocache" -> <<Rq(TRUE, 140, 0), Rq(TRUE, 140, 0), Rq(FALSE, 140, 1)>>
         [] u = "/maxage_zero" -> <<Rq(FALSE, 150, 0), Rq(FALSE, 150, 0)>>
         [] u = "/overridden" -> <<Rq(FALSE, 160, 0), Rq(FALSE, 160, 1)>>
         [] u = "/overridden_null_maxage" -> <<Rq(FALSE, 190, 0), Rq(FALSE, 190, 1)>> ]

\* max-age of the section "cache my_cache"
cache_max_age == 20

\* a rule in which max-age, when present, hides s-maxage
MaxAge_maxage_first(h) ==
    IF h.maxage # Absent THEN h.maxage
    ELSE IF h.smaxage # Absent THEN h.smaxage
    ELSE Absent

\* the max age of a response: s-maxage when present, else max-age
MaxAge(h) ==
    IF h.smaxage # Absent THEN h.smaxage
    ELSE IF h.maxage # Absent THEN h.maxage
    ELSE Absent

\* the rule of the cache: an explicit age or a validator, and no Age header
\* that is invalid or greater than the max age
Cacheable(h) ==
    /\ MaxAge(h) > 0 \/ h.expires \/ h.lastmod \/ h.etag
    /\ h.age # Invalid
    /\ h.age # Absent =>
         h.age <= (IF MaxAge(h) # Absent THEN MaxAge(h) ELSE cache_max_age)

NoRx == [url |-> NULL, n |-> 0, nocache |-> FALSE, bodylen |-> 0, hit |-> 0]

NoCache ==
    [pc |-> "off", stored |-> [u \in Urls |-> 0], sent |-> [u \in Urls |-> 0],
     fwd |-> [u \in Urls |-> 0], total |-> 0, rx |-> NoRx]

\* c1 sends its next request for the URL u through the frontend: cache-use
\* answers it from the cache unless it says no-cache, else the server sends
\* its next response and cache-store keeps it when the rule allows
cache_request ==
    /\ cache.pc = "on"
    /\ cache.total < MaxRequests
    /\ \E u \in Urls :
         /\ cache.sent[u] < Len(ClientScript[u])
         /\ LET n == cache.sent[u] + 1
                rq == ClientScript[u][n]
                use == cache.stored[u] # 0 /\ ~rq.nocache
                answered == cache.fwd[u] < Len(ServerScript[u])
                tx == ServerScript[u][cache.fwd[u] + 1]
            IN  cache' =
                  IF use
                  THEN [cache EXCEPT !.sent[u] = n, !.total = @ + 1,
                          !.rx = [url |-> u, n |-> n, nocache |-> rq.nocache,
                                  bodylen |-> cache.stored[u], hit |-> 1]]
                  ELSE IF ~answered
                  THEN [cache EXCEPT !.sent[u] = n, !.total = @ + 1, !.pc = "stuck",
                          !.rx = [url |-> u, n |-> n, nocache |-> rq.nocache,
                                  bodylen |-> 0, hit |-> 0]]
                  ELSE [cache EXCEPT !.sent[u] = n, !.total = @ + 1,
                          !.fwd[u] = @ + 1,
                          !.stored[u] = IF Cacheable(tx.hdrs) THEN tx.bodylen ELSE @,
                          !.rx = [url |-> u, n |-> n, nocache |-> rq.nocache,
                                  bodylen |-> tx.bodylen, hit |-> 0]]
    /\ UNCHANGED <<renewal, rep, names, conf, seq, race>>

---------------------------------------------------------------------------
(* The steps of an order without a failed step (SpecAuth): acme_process    *)
(* from NEWORDER on, with the requests it has issued, until a step fails   *)
(* or the FINALIZE request is out.                                         *)

\* the ctx of a renewal that is about to issue its newOrder
OrderCtx ==
    [ZeroCtx EXCEPT !.state = "NEWORDER", !.retries = ACME_RETRY, !.nonce = "n1",
                    !.kid = "l1",
                    !.ressources = [newNonce |-> "newNonce", newAccount |-> "newAccount",
                                    newOrder |-> "newOrder"]]

\* what is kept of a request: its state, its method and the authorization
\* it is for
Sent(c) ==
    [state |-> c.state, meth |-> Request(c).meth,
     auth |-> IF UsesAuth(c.state) THEN c.auths[c.next_auth].auth ELSE NULL]

NoSeq == [pc |-> "off", ctx |-> ZeroCtx, n |-> 0, posts |-> <<>>]

\* the REQ phase of a state: a NULL next_auth is dereferenced, or the request
\* is issued, or issuing it fails and the step has failed
order_req ==
    /\ seq.pc = "req"
    /\ IF UsesAuth(seq.ctx.state) /\ seq.ctx.next_auth = 0
       THEN seq' = [seq EXCEPT !.pc = "crashed"]
       ELSE \E ok \in BOOLEAN :
              IF ~ok
              THEN seq' = [seq EXCEPT !.pc = "failed", !.ctx = Retry(seq.ctx).ctx]
              ELSE seq' = [seq EXCEPT !.pc = IF seq.ctx.state = "FINALIZE" THEN "done"
                                             ELSE "res",
                                      !.posts = Append(@, Sent(seq.ctx))]
    /\ UNCHANGED <<renewal, rep, names, conf, cache, race>>

\* the RES phase of a state: the handler fails and the step has failed, or
\* the case of the switch goes on to the next authorization or state
order_res ==
    /\ seq.pc = "res"
    /\ \E r \in Responses(seq.ctx.state) :
         LET o == Handle(seq.ctx, r)
         IN  IF o.ret # 0
             THEN seq' = [seq EXCEPT !.pc = "failed", !.ctx = Retry(o.ctx).ctx]
             ELSE seq' = [seq EXCEPT !.pc = "req", !.ctx = Advance(o.ctx).ctx,
                                     !.n = IF seq.ctx.state = "NEWORDER" THEN r.nauth
                                           ELSE @]
    /\ UNCHANGED <<renewal, rep, names, conf, cache, race>>

---------------------------------------------------------------------------
(* The completion callback and a running acme_process (SpecRace): the task *)
(* runs on one worker thread, the callback of the HTTP client on another.  *)
(* The states of the protocol are numbered, each has one request.          *)

MaxHandles == 4

MaxStates == 2

NoRace ==
    [pc |-> "off", state |-> 1, http_state |-> "REQ", retries |-> 0, hc |-> 0,
     wake |-> FALSE, started |-> {}, completed |-> {}, handled |-> {}, live |-> {}]

\* the retry label: the locals are stored, one unit of the budget is spent
RaceRetry(x) ==
    [x EXCEPT !.http_state = "REQ", !.retries = @ - 1, !.wake = FALSE,
              !.pc = IF x.retries - 1 > 0 THEN "woken" ELSE "ended"]

\* acme_process runs: it copies ctx->state and ctx->http_state. In the REQ
\* phase acme_http_req fails, or it creates the handle, stores it in ctx->hc
\* and starts it: the function is then still running, before it stores its
\* locals. In the RES phase the handler destroys ctx->hc and fails or not,
\* and the locals are stored
race_process ==
    /\ race.pc = "woken"
    /\ IF race.state > MaxStates
       THEN race' = [race EXCEPT !.pc = "ended"]
       ELSE IF race.http_state = "REQ"
       THEN \E ok \in BOOLEAN :
              IF ok /\ Cardinality(race.started) < MaxHandles
              THEN LET h == Cardinality(race.started) + 1
                   IN  race' = [race EXCEPT !.pc = "issued", !.wake = FALSE, !.hc = h,
                                            !.started = @ \cup {h}, !.live = @ \cup {h}]
              ELSE race' = RaceRetry([race EXCEPT !.hc = 0])
       ELSE \E ret \in {0, 1} :
              LET x == [race EXCEPT !.hc = 0, !.live = @ \ {race.hc},
                                    !.handled = @ \cup ({race.hc} \ {0})]
              IN  IF ret # 0 \/ race.hc = 0
                  THEN race' = RaceRetry(x)
                  ELSE race' = [x EXCEPT !.state = @ + 1, !.http_state = "REQ",
                                         !.wake = FALSE, !.pc = "woken"]
    /\ UNCHANGED <<renewal, rep, names, conf, cache, seq>>

\* the end of the run that issued a request: ctx->http_state = http_st, the
\* local copy made when the run began; the task runs again if it was woken
\* meanwhile and is parked if not
race_store_locals ==
    /\ race.pc = "issued"
    /\ race' = [race EXCEPT !.http_state = "REQ",
                            !.pc = IF race.wake THEN "woken" ELSE "parked"]
    /\ UNCHANGED <<renewal, rep, names, conf, cache, seq>>

\* when the HTTP client may call back: the client runs on any worker thread,
\* so also while the run that started it has not returned yet
CallbackMayRun(pc) == pc \in {"issued", "parked", "woken", "ended"}

\* acme_httpclient_end for a started handle h: REQ becomes RES and the task
\* is woken; a task that ended is gone and is dereferenced
race_httpclient_end ==
    /\ CallbackMayRun(race.pc)
    /\ \E h \in (race.started \cap race.live) \ race.completed :
         race' = [race EXCEPT
                    !.completed = @ \cup {h},
                    !.http_state = IF race.pc = "ended" THEN @
                                   ELSE IF @ = "REQ" THEN "RES" ELSE @,
                    !.wake = (race.pc # "ended"),
                    !.pc = CASE race.pc = "parked" -> "woken"
                             [] race.pc = "ended" -> "crashed"
                             [] OTHER -> @]
    /\ UNCHANGED <<renewal, rep, names, conf, cache, seq>>

---------------------------------------------------------------------------
(* The specifications.                                                     *)

\* every other specification leaves the renewal before 'acme renew'
InitErr ==
    /\ Renewal0(<<"a", "b">>)
    /\ rep \in { [NoRep EXCEPT !.pc = "res", !.st = st, !.r = r] :
                   st \in ResStates, r \in Refusals }
    /\ names = NoNames /\ conf = NoConf /\ cache = NoCache
    /\ seq = NoSeq /\ race = NoRace

SpecErr == InitErr /\ [][acme_process_notice]_vars

InitCsr ==
    /\ Renewal0(<<"a", "b">>)
    /\ names \in { [NoNames EXCEPT !.pc = "idle", !.store = d] : d \in NameLists }
    /\ rep = NoRep /\ conf = NoConf /\ cache = NoCache
    /\ seq = NoSeq /\ race = NoRace

NextCsr ==
    \/ renew_dup
    \/ ckch_store_replace
    \/ renew_csr
    \/ renew_neworder

SpecCsr == InitCsr /\ [][NextCsr]_vars

\* the account key file of each section: absent, unusable, or a key
InitCfg ==
    /\ Renewal0(<<"a", "b">>)
    /\ conf \in { [NoConf EXCEPT !.pc = "top", !.keys = k] :
                    k \in [ConfNames -> {"absent", "bad", "key"}] }
    /\ rep = NoRep /\ names = NoNames /\ cache = NoCache
    /\ seq = NoSeq /\ race = NoRace

NextCfg ==
    \/ ckch_conf_acme_init
    \/ cfg_parse_acme
    \/ cfg_postsection_acme
    \/ cfg_postparser_acme

SpecCfg == InitCfg /\ [][NextCfg]_vars

InitCache ==
    /\ Renewal0(<<"a", "b">>)
    /\ cache = [NoCache EXCEPT !.pc = "on"]
    /\ rep = NoRep /\ names = NoNames /\ conf = NoConf
    /\ seq = NoSeq /\ race = NoRace

SpecCache == InitCache /\ [][cache_request]_vars

\* an order is about to be requested
InitAuth ==
    /\ Renewal0(<<"a", "b">>)
    /\ seq = [NoSeq EXCEPT !.pc = "req", !.ctx = OrderCtx]
    /\ rep = NoRep /\ names = NoNames /\ conf = NoConf /\ cache = NoCache
    /\ race = NoRace

NextAuth ==
    \/ order_req
    \/ order_res

SpecAuth == InitAuth /\ [][NextAuth]_vars

\* the task was woken for the first time
InitRace ==
    /\ Renewal0(<<"a", "b">>)
    /\ race = [NoRace EXCEPT !.pc = "woken", !.retries = ACME_RETRY]
    /\ rep = NoRep /\ names = NoNames /\ conf = NoConf /\ cache = NoCache
    /\ seq = NoSeq

NextRace ==
    \/ race_process
    \/ race_store_locals
    \/ race_httpclient_end

SpecRace == InitRace /\ [][NextRace]_vars

Next ==
    \/ cli_acme_renew_parse
    \/ cli_acme_renew_start
    \/ acme_process
    \/ acme_httpclient_end
    \/ cli_lock
    \/ cli_unlock

\* before 'acme renew', for an entry of any of the lists of names
Init ==
    /\ \E d \in DomainLists : Renewal0(d)
    /\ rep = NoRep /\ names = NoNames /\ conf = NoConf /\ cache = NoCache
    /\ seq = NoSeq /\ race = NoRace

Spec == Init /\ [][Next]_vars

---------------------------------------------------------------------------
(* Properties.                                                             *)

\* the step of acme_process that handles a response
Handled == hc # NoHc /\ hc' = NoHc

\* the step of acme_process that issues a request
Issued == hc = NoHc /\ hc' # NoHc

\* a POST was answered non-2xx, with a Replay-Nonce header
FailedPost(l) == l.state \in PostStates /\ l.status # 0 /\ ~Is2xx(l.status) /\ l.nonce # NULL

\* the body of the answer to CHKACCOUNT says accountDoesNotExist
NotExist(l) == l.state = "CHKACCOUNT" /\ l.type = "accountDoesNotExist"

\* C1: the nonce in the JWS header of every POST in flight is set and is the
\* most recent Replay-Nonce received in any response of this renewal
C1_PostNonceIsLatest ==
    (hc # NoHc /\ hc.meth = "POST") =>
        (hc.jws.nonce # NULL /\ hc.jws.nonce = lastReplay)

\* C2 as stated: whenever a POST is answered non-2xx with a Replay-Nonce, the
\* driver stays in the same state, consumes exactly one retry and runs again
\* to re-issue the POST with the nonce of the error response
C2_RetrySameStateAlways ==
    [][(Handled /\ FailedPost(last')) =>
          /\ ctx'.state = ctx.state
          /\ ctx'.http_state = "REQ"
          /\ ctx'.retries = ctx.retries - 1
          /\ ctx'.nonce = last'.nonce
          /\ task' = "woken"]_vars

\* C3: a POST in flight before the account is known (CHKACCOUNT, NEWACCOUNT)
\* carries jwk and no kid; a POST of a later state carries kid and no jwk
C3_KidAfterAccount ==
    (hc # NoHc /\ hc.meth = "POST") =>
        IF ctx.state \in {"CHKACCOUNT", "NEWACCOUNT"}
        THEN hc.jws.jwk # NULL /\ hc.jws.kid = NULL
        ELSE hc.jws.kid # NULL /\ hc.jws.kid = ctx.kid /\ hc.jws.jwk = NULL

\* C4: once a 2xx response was handled in NEWACCOUNT the driver is in
\* NEWORDER, in REQ, and the task runs again
C4_NewAccountAdvances ==
    [][(Handled /\ last'.state = "NEWACCOUNT" /\ Is2xx(last'.status)) =>
          /\ ctx'.state = "NEWORDER"
          /\ ctx'.http_state = "REQ"
          /\ task' = "woken"]_vars

\* C5: a non-2xx answer to CHKACCOUNT whose type is accountDoesNotExist
\* consumes no retry and the next state is NEWACCOUNT
C5_NotExistGoesToNewAccount ==
    [][(Handled /\ NotExist(last') /\ ~Is2xx(last'.status)) =>
          /\ ctx'.retries = ctx.retries
          /\ ctx'.state = "NEWACCOUNT"
          /\ ctx'.http_state = "REQ"
          /\ task' = "woken"]_vars

\* C6: a 2xx answer to CHKACCOUNT with a Location header sets kid to that
\* Location, the next state is NEWORDER with no NEWACCOUNT POST issued so
\* far, and none is issued from NEWORDER on
C6_ExistingAccountSkipsNewAccount ==
    [][/\ (Handled /\ last'.state = "CHKACCOUNT" /\ Is2xx(last'.status)
                   /\ last'.location # NULL) =>
             /\ ctx'.kid = last'.location
             /\ ctx'.state = "NEWORDER"
             /\ ctx'.http_state = "REQ"
             /\ task' = "woken"
             /\ "NEWACCOUNT" \notin posted'
       /\ (ctx.state \notin {"RESSOURCES", "NEWNONCE", "CHKACCOUNT", "NEWACCOUNT"}) =>
             /\ "NEWACCOUNT" \notin (posted' \ posted)
             /\ ctx'.state \notin {"RESSOURCES", "NEWNONCE", "CHKACCOUNT", "NEWACCOUNT"}
      ]_vars

\* C6 witness: CHKACCOUNT was answered 2xx with a Location that replaced
\* another kid, and the NEWORDER POST is in flight under that kid
C6_ExistingAccountFound ==
    /\ ctx.state = "NEWORDER" /\ ctx.kid = "l2"
    /\ hc # NoHc /\ hc.jws.kid = "l2"
    /\ posted = {"CHKACCOUNT", "NEWORDER"}
    /\ ctx.retries = ACME_RETRY - 1

\* C7: a renewal whose every step was the happy one (account absent then
\* created, at least one authorization, lock free) does not end before the
\* store entry is the new one with every binding rebuilt
C7_HappyPathSwaps ==
    (happy /\ task = "destroyed") =>
        /\ ckchs_tree = "new"
        /\ new_ckchs.cert = "pem"
        /\ new_ckchs.ckch_inst = old_ckchs.ckch_inst

\* C8: a 2xx answer to AUTH that offers no challenge of the configured type
\* is a failure: a retry is consumed and the driver stays on that
\* authorization in AUTH
C8_NoMatchingChallengeFails ==
    [][(Handled /\ last'.state = "AUTH" /\ Is2xx(last'.status) /\ ~last'.offers) =>
          /\ ctx'.state = "AUTH"
          /\ ctx'.next_auth = ctx.next_auth
          /\ ctx'.retries = ctx.retries - 1]_vars

\* C9: while the challenge's status is pending or processing the driver
\* stays in CHKCHALLENGE on the same authorization
C9_PendingKeepsPolling ==
    [][(Handled /\ last'.state = "CHKCHALLENGE"
                /\ last'.cstatus \in {"pending", "processing"}) =>
          /\ ctx'.state = "CHKCHALLENGE"
          /\ ctx'.next_auth = ctx.next_auth]_vars

\* C10: with an order of zero authorizations the driver goes through AUTH,
\* CHALLENGE and CHKCHALLENGE without dereferencing the null cursor
C10_ZeroAuthsNoNullDeref ==
    (ctx.auths = <<>> /\ UsesAuth(ctx.state)) => task # "crashed"

\* C11: a step that fails with more than one retry left keeps the protocol
\* state, rewinds to REQ, takes one unit off the budget and wakes the task;
\* with one retry left the task ends, and an ended task issues no request
C11_RetryPolicy ==
    [][/\ (nfail' = nfail + 1) =>
             IF ctx.retries > 1
             THEN /\ ctx'.state = ctx.state
                  /\ ctx'.http_state = "REQ"
                  /\ ctx'.retries = ctx.retries - 1
                  /\ task' = "woken"
             ELSE /\ ctx'.retries = 0
                  /\ task' = "destroyed"
                  /\ hc' = NoHc
       /\ (task = "destroyed") =>
             /\ task' = "destroyed"
             /\ nreq' = nreq
             /\ hc' = hc]_vars

\* C11 witness: the budget was used up in NEWORDER by one failure to issue
\* the request and two failed responses, and the task has ended
C11_Exhausted ==
    /\ task = "destroyed" /\ ctx.retries = 0 /\ nfail = ACME_RETRY
    /\ ctx.state = "NEWORDER" /\ last.state = "NEWORDER"
    /\ nreq = 5

\* C12: the budget never exceeds ACME_RETRY, at most ACME_RETRY steps fail,
\* and at most 8 + 3*N + ACME_RETRY requests are issued, N the number of
\* authorizations of the newOrder response
C12_RequestBound ==
    /\ ctx.retries <= ACME_RETRY
    /\ nfail <= ACME_RETRY
    /\ nreq <= 8 + 3 * norder + ACME_RETRY

\* C13: the task ends only after the hot swap or with the budget exhausted,
\* and it is not parked without a request in flight
C13_EndsAfterSwapOrExhaustion ==
    /\ (task = "destroyed") => (ckchs_tree = "new" \/ ctx.retries = 0)
    /\ (task = "sleeping") => hc # NoHc

\* C14: once the task has ended the ctx is no longer allocated
C14_CtxFreedWithTask ==
    (task = "destroyed") => mem.ctx # "live"

\* the step in which the installer's try-lock succeeds
InstallerEnters ==
    /\ Handled /\ last'.state = "CERTIFICATE" /\ Is2xx(last'.status) /\ last'.pem
    /\ ckch_lock = "free"

\* the step in which the installer's try-lock fails
InstallerLockedOut ==
    /\ Handled /\ last'.state = "CERTIFICATE" /\ Is2xx(last'.status) /\ last'.pem
    /\ ckch_lock # "free"

\* C15: the installer does not enter its critical section while another
\* operation is inside one
C15_MutualExclusion ==
    [][InstallerEnters => ~cli_in]_vars

\* C16: an installer that finds the lock held fails and changes nothing: the
\* lock stays with its holder, the index and the binding lists are as before
C16_LockedOutChangesNothing ==
    [][InstallerLockedOut =>
          /\ nfail' = nfail + 1
          /\ ckch_lock' = ckch_lock
          /\ ckchs_tree' = ckchs_tree
          /\ new_ckchs'.ckch_inst = new_ckchs.ckch_inst]_vars

\* C17: unless the swap is done the new entry holds no rebuilt binding, and
\* once it is done it holds exactly one per binding of the live entry
C17_NoPartialRebuilds ==
    IF ckchs_tree = "new"
    THEN new_ckchs.ckch_inst = old_ckchs.ckch_inst
    ELSE new_ckchs.ckch_inst = <<>>

\* C18: the new entry of a started renewal carries the generated key
C18_KeyStaysAttached ==
    (renew = "started") => new_ckchs.key = "pkey"

\* C19: an 'acme renew' issued while the lock is held returns the locked
\* error, spawns no task, allocates nothing and leaves lock and store alone
C19_RenewWhileLocked ==
    [][(renew = "idle" /\ renew' # "idle" /\ ckch_lock # "free") =>
          /\ renew' = "locked"
          /\ task' = "none"
          /\ mem' = NoMem
          /\ ckch_lock' = ckch_lock
          /\ cli_in' = cli_in
          /\ ckchs_tree' = ckchs_tree
          /\ old_ckchs' = old_ckchs]_vars

\* C19 witness: the command was refused while the other operation is still
\* inside its critical section, holding the lock
C19_Refused ==
    /\ renew = "locked" /\ task = "none"
    /\ cli_in /\ ckch_lock = "cli"

\* C20: after a setup failure of 'acme renew' the CLI error was returned, no
\* task exists, and neither the duplicate nor the ctx is still allocated
C20_SetupFailureFreesAll ==
    (renew \in {"err", "crashed"}) =>
        /\ renew = "err"
        /\ task = "none"
        /\ mem.newstore \in {"none", "freed"}
        /\ mem.ctx \in {"none", "freed"}

\* C21: an 'acme renew' that names no certificate returns the
\* missing-argument message, and has neither tried CKCH_LOCK nor looked an
\* entry up
C21_MissingNameRejectedFirst ==
    (renew # "idle" /\ cli.args2 = "") =>
        /\ renew = "err"
        /\ cli.msg = "not enough parameters"
        /\ ~cli.trylock
        /\ ~cli.lookup

\* C22: an 'acme renew' that has installed the new key in the duplicate of
\* an entry with no DNS name returns the CSR error and starts no task
C22_NoNamesRejected ==
    (new_ckchs.key = "pkey" /\ old_ckchs.domains \in {NoDomains, <<>>}) =>
        /\ renew = "err"
        /\ cli.msg = "Can't generate a CSR"
        /\ task = "none"

\* C27: a handled response of any status that carries a Replay-Nonce, in any
\* state, leaves that nonce in ctx.nonce
C27_HarvestBeforeStatus ==
    [][(Handled /\ last'.nonce # NULL) => ctx'.nonce = last'.nonce]_vars

\* C28: a handled response whose status is outside 200-299, other than
\* accountDoesNotExist on CHKACCOUNT, is a failed step whatever its body: the
\* state is kept and one retry is consumed
C28_RefusedStatusFails ==
    [][(Handled /\ ~Is2xx(last'.status) /\ ~NotExist(last')) =>
          /\ ctx'.state = ctx.state
          /\ ctx'.retries = ctx.retries - 1
          /\ nfail' = nfail + 1]_vars

\* C29: after a 2xx answer in AUTH the challenge of the authorization is the
\* first entry of challenges[] whose type is the configured one, compared on
\* the whole string with case ignored; without such an entry it is unchanged
C29_SelectsConfiguredType ==
    [][(Handled /\ ctx.state = "AUTH" /\ Is2xx(last'.status)) =>
          ctx'.auths[ctx.next_auth].chall =
              IF last'.want # NULL THEN last'.want
              ELSE ctx.auths[ctx.next_auth].chall]_vars

\* C30: the driver leaves CHKORDER only for CERTIFICATE and only on a 2xx
\* answer whose status is "valid" and that has a certificate URL; any other
\* answer keeps it in CHKORDER and consumes one retry
C30_CertificateOnlyAfterValid ==
    [][(Handled /\ ctx.state = "CHKORDER") =>
          IF Is2xx(last'.status) /\ last'.valid
          THEN ctx'.state = "CERTIFICATE"
          ELSE ctx'.state = "CHKORDER" /\ ctx'.retries = ctx.retries - 1]_vars

\* C23: in every renewal that sent its newOrder, the set of names in the
\* subjectAltName of the CSR is the set of names of the identifiers of the
\* newOrder payload, and the CN of the CSR is the first of them
C23_CsrNamesAreOrderNames ==
    names.pc = "ordered" =>
      LET ids == identifier_values(names.payload, 1)
      IN  /\ san_names(names.req.san) = { ids[i] : i \in 1..Len(ids) }
          /\ Len(ids) > 0
          /\ names.req.cn = ids[1]

\* C24: in whatever order crt lines name acme sections and acme sections
\* are declared, the configuration is loaded only if every acme_cfg was
\* declared by a section and has its account key and its thumbprint
C24_LoadedMeansInitialized ==
    conf.pc = "ok" =>
      \A i \in 1..Len(conf.acme_cfgs) :
        /\ conf.acme_cfgs[i].linenum > 0
        /\ conf.acme_cfgs[i].pkey
        /\ conf.acme_cfgs[i].thumbprint

\* C25: in every state, the errmsg of a step that failed on a refused
\* response with a detail and a type quotes both; the errmsg of any other
\* failed step holds a local cause
C25_RefusalQuoted ==
    (rep.pc = "reported" /\ rep.failed) =>
      IF ~Is2xx(rep.r.status) /\ rep.r.detail # NULL /\ rep.r.type # NULL
      THEN rep.errmsg.detail = rep.r.detail /\ rep.errmsg.type = rep.r.type
      ELSE rep.errmsg.text # NULL

\* C26: every response c1 receives is the one its script expects, by its
\* body and its X-Cache-Hit; it comes from the cache only if the response of
\* the server had s-maxage > 0, or max-age > 0 and no s-maxage, or Expires,
\* or Last-Modified or ETag, and no Age that is invalid or above its max
\* age; every request for any other URL went to the server
C26_CacheFollowsRule ==
    cache.rx.url # NULL =>
      LET u == cache.rx.url
          exp == ClientScript[u][cache.rx.n]
          h == ServerScript[u][1].hdrs
          age == IF h.smaxage # Absent THEN h.smaxage ELSE h.maxage
          rule == /\ \/ h.smaxage > 0
                     \/ h.smaxage = Absent /\ h.maxage > 0
                     \/ h.expires
                     \/ h.lastmod
                     \/ h.etag
                  /\ h.age # Invalid
                  /\ (h.age # Absent /\ age # Absent) => h.age <= age
      IN  /\ cache.pc = "on"
          /\ cache.rx.bodylen = exp.bodylen
          /\ exp.hit # Absent => cache.rx.hit = exp.hit
          /\ cache.rx.hit = 1 => rule
          /\ ~rule => cache.fwd[u] = cache.sent[u]

\* a response whose max-age is 0 and whose s-maxage is not was served from
\* the cache, and both requests for /uncacheable went to the server
C26_ServedFromCache ==
    /\ cache.rx.url = "/overridden_null_maxage"
    /\ cache.rx.hit = 1
    /\ cache.fwd["/uncacheable"] = 2

\* C33: once the index maps the path to the new entry, the bindings of the
\* new entry are the rebuilt bindings of the live entry, one for each, in
\* their order, whatever failed before the install that succeeded
C33_SwapRebuildsEachOnce ==
    (ckchs_tree = "new") => new_ckchs.ckch_inst = old_ckchs.ckch_inst

\* C34: 'acme renew' releases CKCH_LOCK in the part that took it and not
\* again: whatever happens after its unlock leaves the lock as it is
C34_NoUnlockAfterUnlock ==
    [][(renew = "dup" /\ renew' # "dup") => ckch_lock' = ckch_lock]_vars

\* C35: ctx->next_auth is NULL or an element of the list ctx->auths
C35_NextAuthInList ==
    ctx.next_auth \in 0..Len(ctx.auths)

\* C35 witness: a NEWORDER that failed and was retried put more elements in
\* the list than its answer has authorizations, and next_auth has moved on
\* from the head of the list
C35_WalkingLongerList ==
    /\ UsesAuth(ctx.state)
    /\ ctx.next_auth > 1
    /\ Len(ctx.auths) > norder

\* C37: when the driver accepts a newOrder response the list ctx->auths
\* holds one acme_auth per authorization of that response, also after
\* failed NEWORDER steps
C37_OneAuthPerAuthorization ==
    [][(Handled /\ ctx.state = "NEWORDER" /\ ctx'.state = "AUTH") =>
          Len(ctx'.auths) = last'.nauth]_vars

\* n times the state st
Times(st, n) == [i \in 1..n |-> st]

\* the states of the requests of an order with n authorizations
OrderStates(n) ==
    <<"NEWORDER">> \o Times("AUTH", n) \o Times("CHALLENGE", n)
    \o Times("CHKCHALLENGE", n) \o <<"FINALIZE">>

\* C31: at most one request of the renewal has been started whose response
\* has not been handled in a RES phase: no request is issued before the
\* response to the previous one was handled
C31_OneRequestAtATime ==
    Cardinality(race.started \ race.handled) <= 1

\* C32: the flip of the callback is not lost: a response that has arrived
\* and is not handled yet is the one of ctx->hc, and once the run that
\* issued its request is over, the task is in the RES phase to handle it
C32_FlipNotLost ==
    \A h \in race.completed \ race.handled :
        /\ race.hc = h
        /\ race.pc \in {"woken", "parked"} => race.http_state = "RES"

\* C36: as long as no step has failed, the requests issued from NEWORDER on
\* are, in their order, a beginning of: newOrder, N AUTH POSTs, N CHALLENGE
\* POSTs, N CHKCHALLENGE GETs, finalize, N the number of authorizations of
\* the newOrder response; the requests of one phase are for N different
\* authorizations; FINALIZE is the state only once all of them are out
C36_PhasesInOrder ==
    (seq.pc \in {"req", "res", "done", "crashed"}) =>
      LET p == seq.posts
          e == OrderStates(seq.n)
      IN  /\ Len(p) <= Len(e)
          /\ \A i \in 1..Len(p) :
                /\ p[i].state = e[i]
                /\ p[i].meth = IF e[i] = "CHKCHALLENGE" THEN "GET" ELSE "POST"
          /\ \A i, j \in 1..Len(p) :
                (i # j /\ p[i].state = p[j].state) => p[i].auth # p[j].auth
          /\ seq.ctx.state = "FINALIZE" => Len(p) >= 1 + 3 * seq.n

\* C36 witness: the FINALIZE request of an order with two authorizations or
\* more is out, no step has failed
C36_OrderFinalized ==
    /\ seq.pc = "done"
    /\ seq.n >= 2
    /\ Len(seq.posts) = 2 + 3 * seq.n

\* C38: the live entry is not replaced and freed while 'acme renew' still
\* has to read it
C38_EntryLiveWhileUsed ==
    (names.pc = "unlocked") => ~names.freed

\* C39: the live handles are the handle of ctx->hc, if any; ctx->hc is set
\* exactly while a request is out whose response is not handled yet; no
\* handle is live once the task has ended
C39_HandleLiveWhileInFlight ==
    /\ race.live = {race.hc} \ {0}
    /\ race.live = race.started \ race.handled
    /\ race.pc \in {"ended", "crashed"} => race.live = {}

====
